---- MODULE Spec2Model ----
(***************************************************************************)
(* The performance-regression pipeline of ECScope's CI scripts:            *)
(*   scripts/analyze_performance_results.py  (PerformanceAnalyzer, main)   *)
(*   scripts/check_performance_regressions.py                              *)
(*                              (PerformanceRegressionChecker, main)       *)
(*                                                                         *)
(* Times are Python floats in the source.  The model draws them from small *)
(* sets of integers and computes with exact rationals [n, d] (d > 0, in    *)
(* lowest terms), so that every comparison the code makes on quotients is  *)
(* decided exactly.  The threshold is carried in hundredths (5 = 0.05).    *)
(***************************************************************************)
EXTENDS Integers, Sequences, FiniteSets, TLC

VARIABLES
    pc,                   \* position of the process / call under analysis
    regression_threshold, \* PerformanceAnalyzer.regression_threshold, in hundredths
    baseline_results,     \* the baseline argument of detect_regressions
    current_results,      \* the current argument of detect_regressions
    regressions,          \* first list returned by detect_regressions
    improvements,         \* second list returned by detect_regressions
    constructed,          \* every RegressionResult the loop constructed, in loop order
    compared,             \* every (baseline index, current index) the loop paired
    file,                 \* what is at the path handed to load_results
    loaded,               \* how the call of load_results ended
    analysis_file,        \* check script: what is at the --analysis path
    check_threshold,      \* check script: --threshold, in hundredths
    fail_arg,             \* check script: the --fail-on-regression argument
    output_arg,           \* check script: the --output path
    checker_regressions,  \* PerformanceRegressionChecker.regressions
    no_regressions,       \* what check_regressions returned
    regression_report,    \* the report written to --output
    current_files,        \* analyze script: what is at the --current paths
    baseline_file,        \* analyze script: what is at the --baseline path
    output_file,          \* analyze script: the --output path
    report_file,          \* analyze script: the --report path
    analysis,             \* the PerformanceAnalysis run_analysis returned
    exported,             \* what export_analysis wrote to --output
    markdown,             \* what generate_report wrote to --report
    summary_printed,      \* main printed the "Analysis Summary" lines
    error,                \* the exception the last call raised
    calls,                \* run_analysis calls made on the analyzer
    insights,             \* how generate_educational_insights ended
    recommendations,      \* how generate_optimization_recommendations ended
    exited,               \* the process has exited
    exit_code             \* with this code

detect_vars == <<regression_threshold, baseline_results, current_results,
                 regressions, improvements, constructed, compared>>
load_vars == <<file, loaded>>
check_vars == <<analysis_file, check_threshold, fail_arg, output_arg,
                checker_regressions, no_regressions, regression_report>>
analyze_vars == <<current_files, baseline_file, output_file, report_file,
                  analysis, exported, markdown, summary_printed, error, calls,
                  insights, recommendations>>
exit_vars == <<exited, exit_code>>

vars == <<pc, detect_vars, load_vars, check_vars, analyze_vars, exit_vars>>

(***************************************************************************)
(* Bounds of the model.                                                    *)
(***************************************************************************)
\* Largest number of records over the baseline and the current list together.
MaxRecords == 3
\* Largest number of entries of the array in a result file.
MaxEntries == 2
\* Largest number of entries of the benchmarks array in an analysis file.
MaxBenchmarks == 2
\* Largest number of --current paths of one run of the analysis script.
MaxFiles == 2
\* Largest number of run_analysis calls on one analyzer.
MaxCalls == 2
\* Largest number of entries of a list handed to generate_report.
MaxListed == 11

(***************************************************************************)
(* Exact rational arithmetic standing for the float arithmetic.            *)
(***************************************************************************)
Abs(x) == IF x < 0 THEN -x ELSE x

RECURSIVE GCD(_, _)
GCD(a, b) == IF b = 0 THEN a ELSE GCD(b, a % b)

\* n/d for d # 0, sign carried by the numerator, lowest terms.
Rat(n, d) ==
    LET g == GCD(Abs(n), Abs(d))
        s == IF d < 0 THEN -1 ELSE 1
    IN  [n |-> (s * n) \div g, d |-> (s * d) \div g]

RatOfInt(i) == [n |-> i, d |-> 1]
RatAdd(p, q) == Rat(p.n * q.d + q.n * p.d, p.d * q.d)
RatMul(p, q) == Rat(p.n * q.n, p.d * q.d)
RatNeg(p) == [n |-> -p.n, d |-> p.d]
RatAbs(p) == [n |-> Abs(p.n), d |-> p.d]
RatDiv(p, q) == Rat(p.n * q.d, p.d * q.n)
RatLt(p, q) == p.n * q.d < q.n * p.d
RatLe(p, q) == p.n * q.d <= q.n * p.d

\* --threshold default=0.05, in hundredths
DefaultThreshold == 5

\* The threshold as a number: hundredths / 100.
ThresholdValue(t) == Rat(t, 100)

(***************************************************************************)
(* PerformanceResult: the fields the pipeline computes with.               *)
(***************************************************************************)
PerformanceResult(name, arch, count, avg, mn, mx, std) ==
    [test_name |-> name, architecture |-> arch, entity_count |-> count,
     average_time_us |-> avg, min_time_us |-> mn, max_time_us |-> mx,
     std_deviation_us |-> std]

\* The (test name, architecture, workload count) tuple of a record.
CompositeTuple(r) == <<r.test_name, r.architecture, r.entity_count>>

\* key = f"{test_name}_{architecture}_{entity_count}"
LookupKey(r) ==
    r.test_name \o "_" \o r.architecture \o "_" \o ToString(r.entity_count)

\* a lookup in which the first record under a key is kept
baseline_lookup_first(baseline, key) ==
    LET hits == {i \in 1..Len(baseline) : LookupKey(baseline[i]) = key}
    IN  IF hits = {} THEN 0 ELSE CHOOSE i \in hits : \A k \in hits : i <= k

\* baseline_lookup after the first loop: a later record overwrites an earlier
\* one under the same key.  The index of the record a key maps to, 0 if none.
baseline_lookup(baseline, key) ==
    LET hits == {i \in 1..Len(baseline) : LookupKey(baseline[i]) = key}
    IN  IF hits = {} THEN 0 ELSE CHOOSE i \in hits : \A k \in hits : k <= i

(***************************************************************************)
(* detect_regressions, one iteration of the loop over the current records. *)
(***************************************************************************)
\* (current_perf - baseline_perf) / baseline_perf, for baseline_perf # 0
change_percentage_flipped(baseline_perf, current_perf) ==
    Rat(baseline_perf - current_perf, baseline_perf)

change_percentage(baseline_perf, current_perf) ==
    Rat(current_perf - baseline_perf, baseline_perf)

\* std / mean when the mean is positive, 0 otherwise
coefficient_of_variation(std, perf) ==
    IF perf > 0 THEN Rat(std, perf) ELSE RatOfInt(0)

\* combined_variance ** 2 = baseline_cv ** 2 + current_cv ** 2
combined_variance_sq(baseline_result, current_result) ==
    LET baseline_cv == coefficient_of_variation(baseline_result.std_deviation_us,
                                                baseline_result.average_time_us)
        current_cv == coefficient_of_variation(current_result.std_deviation_us,
                                               current_result.average_time_us)
    IN  RatAdd(RatMul(baseline_cv, baseline_cv), RatMul(current_cv, current_cv))

\* confidence_level > 0.5, where
\*   statistical_significance = abs(change) / (combined_variance + 1e-10)
\*   confidence_level = min(0.99, statistical_significance / 3.0)
\* that is abs(change) > 1.5 * (combined_variance + 1e-10).  For the times of
\* the model abs(change) - 1.5 * combined_variance is either <= 0 or far above
\* 1.5e-10, so the test is 4 * change^2 > 9 * combined_variance^2.
confidence_above_half(change, cv_sq) ==
    RatLt(RatMul(RatOfInt(9), cv_sq), RatMul(RatOfInt(4), RatMul(change, change)))

RECURSIVE isqrt(_, _)
\* the largest integer whose square is at most x, approached from k above it
isqrt(x, k) ==
    IF k = 0 \/ k <= x \div k THEN k ELSE isqrt(x, (k + x \div k) \div 2)

\* combined_variance = (baseline_cv ** 2 + current_cv ** 2) ** 0.5, the root
\* carried to three decimals
combined_variance(cv_sq) ==
    LET scaled == (cv_sq.n * 1000000) \div cv_sq.d
    IN  Rat(isqrt(scaled, scaled), 1000)

\* statistical_significance = abs(change_percentage) / (combined_variance +
\* 1e-10).  The model's integers are 32 bits wide: its epsilon is 1e-6, which
\* like 1e-10 is below every nonzero combined variance and every nonzero
\* change of the model.
statistical_significance(change, variance) ==
    RatDiv(RatAbs(change), RatAdd(variance, Rat(1, 1000000)))

\* the quotient without the cap
confidence_uncapped(significance) == RatDiv(significance, RatOfInt(3))

\* confidence_level = min(0.99, statistical_significance / 3.0)
confidence_level(significance) ==
    LET third == RatDiv(significance, RatOfInt(3))
    IN  IF RatLt(third, Rat(99, 100)) THEN third ELSE Rat(99, 100)

\* is_regression = change_percentage > self.regression_threshold
is_regression(change, threshold) == RatLt(ThresholdValue(threshold), change)

\* the threshold compared without its sign
is_improvement_unsigned(change, threshold) ==
    RatLt(change, ThresholdValue(threshold))

\* is_improvement = change_percentage < -self.regression_threshold
is_improvement(change, threshold) == RatLt(change, RatNeg(ThresholdValue(threshold)))

\* The record carries statistical_significance and confidence_level to the
\* precision of combined_variance; the test confidence_level > 0.5 of the
\* loop is decided exactly, in confident.
RegressionResult(baseline_result, current_result, threshold) ==
    LET baseline_perf == baseline_result.average_time_us
        current_perf == current_result.average_time_us
        change == change_percentage(baseline_perf, current_perf)
        cv_sq == combined_variance_sq(baseline_result, current_result)
        significance == statistical_significance(change, combined_variance(cv_sq))
    IN  [test_name |-> current_result.test_name,
         baseline_performance |-> baseline_perf,
         current_performance |-> current_perf,
         change_percentage |-> change,
         is_regression |-> is_regression(change, threshold),
         is_improvement |-> is_improvement(change, threshold),
         statistical_significance |-> significance,
         confidence_level |-> confidence_level(significance),
         confident |-> confidence_above_half(change, cv_sq)]

\* What the loop body does with current[j]: the baseline index it pairs it
\* with (0: key not in baseline_lookup), whether a RegressionResult was
\* constructed (not when baseline_perf == 0), and the list it was appended to.
NoList == "none"

LoopStep(baseline, current, threshold, j) ==
    LET i == baseline_lookup(baseline, LookupKey(current[j]))
    IN  IF i = 0
        THEN [current_index |-> j, baseline_index |-> 0, built |-> FALSE,
              appended_to |-> NoList]
        ELSE IF baseline[i].average_time_us = 0
        THEN [current_index |-> j, baseline_index |-> i, built |-> FALSE,
              appended_to |-> NoList]
        ELSE LET r == RegressionResult(baseline[i], current[j], threshold)
             IN  [current_index |-> j, baseline_index |-> i, built |-> TRUE,
                  result |-> r,
                  appended_to |->
                      IF r.is_regression /\ r.confident THEN "regressions"
                      ELSE IF r.is_improvement /\ r.confident THEN "improvements"
                      ELSE NoList]

(***************************************************************************)
(* list.sort(key=change_percentage[, reverse=True]): stable.               *)
(***************************************************************************)
\* x goes strictly before e in the sorted order
SortsBefore(x, e, reverse) ==
    IF reverse THEN RatLt(e.change_percentage, x.change_percentage)
               ELSE RatLt(x.change_percentage, e.change_percentage)

\* insert x into the sorted list s behind every element it does not precede
SortedInsert(s, x, reverse) ==
    LET ahead == {k \in 1..Len(s) : SortsBefore(x, s[k], reverse)}
        at == IF ahead = {} THEN Len(s) + 1
              ELSE CHOOSE k \in ahead : \A m \in ahead : k <= m
    IN  SubSeq(s, 1, at - 1) \o <<x>> \o SubSeq(s, at, Len(s))

\* the list left in the order of the appends
unsorted(s, reverse) == s

RECURSIVE sort_by_change(_, _)
sort_by_change(s, reverse) ==
    IF s = <<>> THEN <<>>
    ELSE SortedInsert(sort_by_change(SubSeq(s, 1, Len(s) - 1), reverse),
                      s[Len(s)], reverse)

(***************************************************************************)
(* detect_regressions(baseline, current) with self.regression_threshold.   *)
(***************************************************************************)
RECURSIVE LoopSteps_break(_, _, _, _)
\* a loop that ends at the first record whose baseline average is 0
LoopSteps_break(baseline, current, threshold, j) ==
    IF j = 0 THEN <<>>
    ELSE LET before == LoopSteps_break(baseline, current, threshold, j - 1)
             ended == /\ before # <<>>
                      /\ before[Len(before)].baseline_index # 0
                      /\ ~before[Len(before)].built
         IN  IF ended THEN before
             ELSE Append(before, LoopStep(baseline, current, threshold, j))

RECURSIVE LoopSteps(_, _, _, _)
\* the loop over current[1..j], one step per record, in order
LoopSteps(baseline, current, threshold, j) ==
    IF j = 0 THEN <<>>
    ELSE Append(LoopSteps(baseline, current, threshold, j - 1),
                LoopStep(baseline, current, threshold, j))

\* the results appended to the list named by which, in loop order
Collect(steps, which) ==
    LET kept == SelectSeq(steps, LAMBDA st : st.appended_to = which)
    IN  [k \in 1..Len(kept) |-> kept[k].result]

detect_regressions(baseline, current, threshold) ==
    LET steps == LoopSteps(baseline, current, threshold, Len(current))
    IN  [regressions |-> sort_by_change(Collect(steps, "regressions"), TRUE),
         improvements |-> sort_by_change(Collect(steps, "improvements"), FALSE),
         constructed |-> SelectSeq(steps, LAMBDA st : st.built),
         compared |-> SelectSeq(steps, LAMBDA st : st.baseline_index # 0)]

(***************************************************************************)
(* JSON documents as json.load returns them.                               *)
(***************************************************************************)
Num(n) == [t |-> "number", v |-> n]
\* a number literal beyond the float range (1e999): json.load gives float inf
Infinity == [t |-> "infinity"]
Str(s) == [t |-> "string", s |-> s]
Null == [t |-> "null"]
Arr(items) == [t |-> "array", items |-> items]
\* fields: a function from the keys present to their values
Obj(fields) == [t |-> "object", fields |-> fields]

\* the strings float() and int() accept, with their values
DecimalValue == "12" :> 12

\* a Python call that returns v, or raises exc
Returned(v) == [exc |-> "none", v |-> v]
Raised(exc) == [exc |-> exc, v |-> 0]

\* float(v), for the finite numbers of the model
python_float(v) ==
    CASE v.t = "number" -> Returned(v.v)
      [] v.t = "string" -> IF v.s \in DOMAIN DecimalValue
                           THEN Returned(DecimalValue[v.s])
                           ELSE Raised("ValueError")
      [] v.t \in {"null", "array", "object"} -> Raised("TypeError")

\* int(v)
python_int(v) ==
    CASE v.t = "number" -> Returned(v.v)
      [] v.t = "infinity" -> Raised("OverflowError")
      [] v.t = "string" -> IF v.s \in DOMAIN DecimalValue
                           THEN Returned(DecimalValue[v.s])
                           ELSE Raised("ValueError")
      [] v.t \in {"null", "array", "object"} -> Raised("TypeError")

\* key in data, for a dict
has_key(data, key) == key \in DOMAIN data.fields

\* item.get(key, default)
dict_get(item, key, default) ==
    IF has_key(item, key) THEN item.fields[key] ELSE default

\* the two keys tried in the other order
dict_get_alternate_first(item, key, alternate, default) ==
    dict_get(item, alternate, dict_get(item, key, default))

\* item.get(key, item.get(alternate, default))
dict_get_either(item, key, alternate, default) ==
    dict_get(item, key, dict_get(item, alternate, default))

\* the string a name field holds ('Unknown' by default)
name_of(v) == IF v.t = "string" THEN v.s ELSE "Unknown"

(***************************************************************************)
(* load_results: the construction of one PerformanceResult from one item.  *)
(* The keyword arguments are evaluated in the order written; the first     *)
(* coercion that raises ends the construction.                             *)
(***************************************************************************)
entity_count_of(item) == python_int(dict_get(item, "entity_count", Num(0)))
average_time_of(item) ==
    python_float(dict_get_either(item, "real_time", "average_time_us", Num(0)))
min_time_of(item) == python_float(dict_get_either(item, "min_time", "min_time_us", Num(0)))
max_time_of(item) == python_float(dict_get_either(item, "max_time", "max_time_us", Num(0)))
std_deviation_of(item) ==
    python_float(dict_get_either(item, "stddev", "std_deviation_us", Num(0)))

\* the coercions of one item, in evaluation order
Coercions(item) ==
    <<entity_count_of(item), average_time_of(item), min_time_of(item),
      max_time_of(item), std_deviation_of(item)>>

parse_item(item) ==
    IF item.t # "object"
    THEN [exc |-> "AttributeError"]      \* item.get on a non-dict
    ELSE LET cs == Coercions(item)
             failed == {k \in 1..Len(cs) : cs[k].exc # "none"}
         IN  IF failed # {}
             THEN [exc |-> cs[CHOOSE k \in failed : \A m \in failed : k <= m].exc]
             ELSE [exc |-> "none",
                   result |-> PerformanceResult(
                       name_of(dict_get_either(item, "name", "test_name", Str("Unknown"))),
                       name_of(dict_get_either(item, "architecture", "architecture_type",
                                               Str("Unknown"))),
                       cs[1].v, cs[2].v, cs[3].v, cs[4].v, cs[5].v)]

\* except (KeyError, ValueError, TypeError): warn and continue
CaughtPerItem == {"KeyError", "ValueError", "TypeError"}

RECURSIVE load_items(_, _)
\* the loop over benchmark_data[1..k]: the exception that left it ("none" if
\* it ran to the end), the results appended and the items they came from
load_items(items, k) ==
    IF k = 0 THEN [raised |-> "none", results |-> <<>>, sources |-> <<>>]
    ELSE LET before == load_items(items, k - 1)
             parsed == parse_item(items[k])
         IN  IF before.raised # "none" THEN before
             ELSE IF parsed.exc = "none"
             THEN [raised |-> "none",
                   results |-> Append(before.results, parsed.result),
                   sources |-> Append(before.sources, k)]
             ELSE IF parsed.exc \in CaughtPerItem THEN before
             ELSE [raised |-> parsed.exc, results |-> <<>>, sources |-> <<>>]

\* for item in value: the items, or the TypeError of a value that is not iterable
iterate(value) ==
    CASE value.t = "array" -> Returned(value.items)
      [] value.t = "string" -> Returned([k \in 1..Len(value.s) |-> Str("c")])
      [] value.t = "object" ->
            Returned([k \in 1..Cardinality(DOMAIN value.fields) |-> Str("key")])
      [] value.t \in {"number", "infinity", "null"} -> Raised("TypeError")

\* the benchmark_data the format dispatch selects
benchmark_data(data) ==
    CASE data.t = "array" -> Returned(data.items)
      [] data.t = "object" ->
            IF has_key(data, "benchmarks") THEN iterate(data.fields["benchmarks"])
            ELSE IF has_key(data, "results") THEN iterate(data.fields["results"])
            ELSE Returned(<<data>>)
         \* 'benchmarks' in data on a str is a substring test, false for the
         \* strings of the model; then [data] is a list of one str
      [] data.t = "string" -> Returned(<<data>>)
         \* 'benchmarks' in data on a number or None
      [] data.t \in {"number", "infinity", "null"} -> Raised("TypeError")

\* what open() and json.load() do with the path
\*   missing: FileNotFoundError; unreadable: PermissionError (an OSError);
\*   malformed: json.JSONDecodeError; json: the document
\* except (FileNotFoundError, json.JSONDecodeError): print, return []
load_results(f) ==
    CASE f.kind \in {"missing", "malformed"} ->
            [raised |-> "none", results |-> <<>>, sources |-> <<>>]
      [] f.kind = "unreadable" ->
            [raised |-> "PermissionError", results |-> <<>>, sources |-> <<>>]
      [] f.kind = "json" ->
            LET data == benchmark_data(f.data)
            IN  IF data.exc # "none"
                THEN [raised |-> data.exc, results |-> <<>>, sources |-> <<>>]
                ELSE load_items(data.v, Len(data.v))

\* no call of load_results yet
NotLoaded == [raised |-> "none", results |-> <<>>, sources |-> <<>>]
LoadIdle == file = [kind |-> "missing"] /\ loaded = NotLoaded

(***************************************************************************)
(* PerformanceAnalyzer: the components of an analysis.                     *)
(* The result files of the model carry no memory_usage, cache_hit_ratio,   *)
(* category or platform key: load_results gives every record the defaults  *)
(* of these fields (0, 0.0, "Unknown", "unknown").                         *)
(***************************************************************************)
RECURSIVE sum_of_times(_)
sum_of_times(rs) ==
    IF rs = <<>> THEN 0
    ELSE Head(rs).average_time_us + sum_of_times(Tail(rs))

\* statistics.mean(r.average_time_us for r in rs), rs not empty
mean_time(rs) == Rat(sum_of_times(rs), Len(rs))

\* analyze_memory_performance: no record of the model has memory_usage > 0
analyze_memory_performance(results) ==
    IF results = <<>> THEN Obj(<<>>)
    ELSE Obj("error" :> Str("No memory usage data available"))

\* the keys of the architectures / arch_performance dict
architectures(results) == {results[i].architecture : i \in DOMAIN results}

\* arch_averages: architecture -> mean of its records' average times
arch_averages(results) ==
    [arch \in architectures(results) |->
        mean_time(SelectSeq(results, LAMBDA r : r.architecture = arch))]

\* the workload sizes without the test for a positive size
entity_counts_unfiltered(results) ==
    {results[i].entity_count : i \in DOMAIN results}

\* sorted(set(r.entity_count for r in results if r.entity_count > 0)), as a set
entity_counts(results) ==
    {c \in {results[i].entity_count : i \in DOMAIN results} : c > 0}

\* scaling_data: count -> mean of the average times of the records with it
scaling_data(results) ==
    [count \in entity_counts(results) |->
        mean_time(SelectSeq(results, LAMBDA r : r.entity_count = count))]

RECURSIVE rat_sum(_, _)
\* sum of f[x] over the set xs
rat_sum(f, xs) ==
    IF xs = {} THEN RatOfInt(0)
    ELSE LET x == CHOOSE y \in xs : TRUE
         IN  RatAdd(f[x], rat_sum(f, xs \ {x}))

\* n * sum_x2 - sum_x * sum_x, the divisor of the slope
slope_denominator(data) ==
    LET xs == DOMAIN data
        sum_x == rat_sum([x \in xs |-> RatOfInt(x)], xs)
        sum_x2 == rat_sum([x \in xs |-> RatOfInt(x * x)], xs)
    IN  RatAdd(RatMul(RatOfInt(Cardinality(xs)), sum_x2),
               RatNeg(RatMul(sum_x, sum_x)))

\* slope = (n * sum_xy - sum_x * sum_y) / (n * sum_x2 - sum_x * sum_x)
scaling_slope(data) ==
    LET xs == DOMAIN data
        n == RatOfInt(Cardinality(xs))
        sum_x == rat_sum([x \in xs |-> RatOfInt(x)], xs)
        sum_y == rat_sum(data, xs)
        sum_xy == rat_sum([x \in xs |-> RatMul(RatOfInt(x), data[x])], xs)
        numerator == RatAdd(RatMul(n, sum_xy), RatNeg(RatMul(sum_x, sum_y)))
        denominator == slope_denominator(data)
    IN  Rat(numerator.n * denominator.d, numerator.d * denominator.n)

complexity_class(slope) ==
    IF RatLt(slope, RatOfInt(2)) THEN "linear"
    ELSE IF RatLt(slope, RatOfInt(10)) THEN "quadratic" ELSE "exponential"

\* the insight returned for an empty result list
NoDataInsight == "No performance data available for analysis."

\* The insights for a result list that is not empty, modelled by their
\* headings, or the ZeroDivisionError of the architecture ratio (line 249)
\* or of the slope (line 275).
derived_insights(results, regs, imps) ==
    LET averages == arch_averages(results)
        several == Cardinality(architectures(results)) > 1
        best == CHOOSE a \in DOMAIN averages :
                    \A b \in DOMAIN averages : RatLe(averages[a], averages[b])
        data == scaling_data(results)
        slope == scaling_slope(data)
        architecture == IF several THEN <<"ECS Architecture Analysis">> ELSE <<>>
        scaling == IF Cardinality(DOMAIN data) > 2 /\ RatLt(RatOfInt(0), slope)
                   THEN <<"Scaling Analysis: " \o complexity_class(slope)>>
                   ELSE <<>>
        regression == IF regs # <<>> THEN <<"Performance Regression Alert">>
                      ELSE <<>>
        improvement == IF imps # <<>> THEN <<"Performance Improvement">>
                       ELSE <<>>
    IN  IF several /\ averages[best].n = 0
        THEN Raised("ZeroDivisionError")
        ELSE IF Cardinality(DOMAIN data) > 2 /\ slope_denominator(data).n = 0
        THEN Raised("ZeroDivisionError")
        ELSE Returned(architecture \o scaling \o regression \o improvement)

\* without the early return for an empty result list
generate_educational_insights_unguarded(results, regs, imps) ==
    derived_insights(results, regs, imps)

generate_educational_insights(results, regs, imps) ==
    IF results = <<>> THEN Returned(<<NoDataInsight>>)
    ELSE derived_insights(results, regs, imps)

\* sub in s
contains(s, sub) ==
    \E i \in 1..(Len(s) - Len(sub) + 1) : SubSeq(s, i, i + Len(sub) - 1) = sub

\* the category of a regression, from its (lower-case) test name
regression_category(test_name) ==
    IF contains(test_name, "ecs") THEN "ECS"
    ELSE IF contains(test_name, "memory") THEN "Memory"
    ELSE IF contains(test_name, "physics") THEN "Physics" ELSE "Other"

RECURSIVE regression_categories(_)
\* the keys of the regression_categories dict, in insertion order
regression_categories(regs) ==
    IF regs = <<>> THEN <<>>
    ELSE LET earlier == regression_categories(SubSeq(regs, 1, Len(regs) - 1))
             category == regression_category(regs[Len(regs)].test_name)
         IN  IF \E k \in DOMAIN earlier : earlier[k] = category
             THEN earlier ELSE Append(earlier, category)

RECURSIVE category_recommendations(_, _)
\* one recommendation for each category with more than one regression
category_recommendations(regs, categories) ==
    IF categories = <<>> THEN <<>>
    ELSE LET of_category ==
                 SelectSeq(regs, LAMBDA reg :
                     regression_category(reg.test_name) = Head(categories))
         IN  (IF Len(of_category) > 1
              THEN <<Head(categories) \o " System Optimization">> ELSE <<>>)
             \o category_recommendations(regs, Tail(categories))

\* The recommendations are modelled by their headings.
generate_optimization_recommendations(results, regs, memory_analysis) ==
    LET memory ==
            IF /\ has_key(memory_analysis, "average_memory_per_entity")
               /\ memory_analysis.fields["average_memory_per_entity"].v > 1000
            THEN <<"High Memory Usage">> ELSE <<>>
        cache ==
            IF /\ has_key(memory_analysis, "cache_performance_consistency")
               /\ memory_analysis.fields["cache_performance_consistency"].v * 10 < 8
            THEN <<"Cache Performance Variance">> ELSE <<>>
        architecture ==
            IF Cardinality(architectures(results)) > 1
            THEN <<"Architecture Optimization">> ELSE <<>>
        counts == entity_counts(results)
        max_entities == CHOOSE c \in counts : \A d \in counts : d <= c
        min_entities == CHOOSE c \in counts : \A d \in counts : c <= d
        large_scale_results ==
            SelectSeq(results, LAMBDA r : r.entity_count * 10 >= max_entities * 8)
        small_scale_results ==
            SelectSeq(results, LAMBDA r : r.entity_count * 10 <= min_entities * 12)
        avg_large_scale_time == mean_time(large_scale_results)
        avg_small_scale_time == mean_time(small_scale_results)
        scaled == Cardinality(counts) > 2
        scaling_factor == Rat(avg_large_scale_time.n * avg_small_scale_time.d,
                              avg_large_scale_time.d * avg_small_scale_time.n)
        scaling ==
            IF scaled /\ RatLt(Rat(max_entities, min_entities), scaling_factor)
            THEN <<"Scaling Optimization">> ELSE <<>>
        listed ==
            memory \o cache
                \o category_recommendations(regs, regression_categories(regs))
                \o architecture \o scaling
    IN  IF scaled /\ avg_small_scale_time.n = 0
        THEN Raised("ZeroDivisionError")
        ELSE Returned(IF listed = <<>>
                      THEN <<"Performance Baseline">> ELSE listed)

(***************************************************************************)
(* check_performance_regressions.py: PerformanceRegressionChecker.         *)
(* Changes and the threshold are in hundredths.                            *)
(***************************************************************************)
Bool(b) == [t |-> "bool", v |-> b]

\* bool(value) of a JSON value
truthy(v) ==
    CASE v.t = "bool" -> v.v
      [] v.t = "number" -> v.v # 0
      [] v.t = "string" -> v.s # ""
      [] v.t = "null" -> FALSE

\* _get_regression_severity(abs(change))
get_regression_severity(change_magnitude) ==
    IF change_magnitude > 50 THEN "critical"
    ELSE IF change_magnitude > 20 THEN "major"
    ELSE IF change_magnitude > 10 THEN "moderate"
    ELSE "minor"

\* _check_single_test: whether a regression was detected, and the
\* regression_info appended to self.regressions
check_single_test(test_name, comparison, threshold) ==
    IF ~has_key(comparison, "performance_change")
    THEN [detected |-> FALSE, infos |-> <<>>]
    ELSE LET change == comparison.fields["performance_change"].v
         IN  IF change < -threshold
             THEN [detected |-> TRUE,
                   infos |-> <<[test |-> test_name, change |-> change,
                                severity |-> get_regression_severity(Abs(change))]>>]
             ELSE [detected |-> FALSE, infos |-> <<>>]

\* _check_benchmark_regression
check_benchmark_regression(benchmark) ==
    IF truthy(dict_get(benchmark, "error_occurred", Bool(FALSE))) THEN TRUE
    ELSE IF truthy(dict_get(benchmark, "timeout", Bool(FALSE))) THEN TRUE
    ELSE FALSE

\* the order in which comparisons.items() yields the tests of the model
TestOrder == <<"t1", "t2">>

RECURSIVE check_comparisons(_, _, _)
\* the loop over the first k tests of comparisons
check_comparisons(comparisons, threshold, k) ==
    IF k = 0 THEN [has_regressions |-> FALSE, regressions |-> <<>>]
    ELSE LET before == check_comparisons(comparisons, threshold, k - 1)
         IN  IF ~has_key(comparisons, TestOrder[k]) THEN before
             ELSE LET one == check_single_test(TestOrder[k],
                                               comparisons.fields[TestOrder[k]],
                                               threshold)
                  IN  [has_regressions |-> before.has_regressions \/ one.detected,
                       regressions |-> before.regressions \o one.infos]

\* check_regressions: has_regressions and self.regressions at its end
check_regressions(analysis_data, threshold) ==
    IF has_key(analysis_data, "comparisons")
    THEN check_comparisons(analysis_data.fields["comparisons"], threshold, Len(TestOrder))
    ELSE IF has_key(analysis_data, "benchmarks")
    THEN LET benchmarks == analysis_data.fields["benchmarks"].items
         IN  [has_regressions |->
                  \E k \in 1..Len(benchmarks) : check_benchmark_regression(benchmarks[k]),
              regressions |-> <<>>]
    ELSE [has_regressions |-> FALSE, regressions |-> <<>>]

\* argparse type=bool: bool(string); default True when the option is absent
ArgAbsent == "<absent>"
parse_fail_on_regression(arg) == IF arg = ArgAbsent THEN TRUE ELSE arg # ""

NoReport == [written |-> FALSE]
CheckIdle ==
    /\ analysis_file = [kind |-> "missing"]
    /\ check_threshold = DefaultThreshold
    /\ fail_arg = ArgAbsent
    /\ output_arg = ArgAbsent
    /\ checker_regressions = <<>>
    /\ no_regressions = TRUE
    /\ regression_report = NoReport
NotExited == exited = FALSE /\ exit_code = 0

(***************************************************************************)
(* check_performance_regressions.py: main.                                 *)
(***************************************************************************)
Exit(code) == exited' = TRUE /\ exit_code' = code /\ pc' = "exited"

\* load the analysis data: sys.exit(1) when the file is missing or is not
\* JSON; an unreadable file raises out of main (exit status 1)
CheckLoadAnalysis ==
    /\ pc = "check_load"
    /\ IF analysis_file.kind \in {"missing", "malformed", "unreadable"}
       THEN Exit(1)
       ELSE pc' = "check_run" /\ UNCHANGED exit_vars
    /\ UNCHANGED <<detect_vars, load_vars, check_vars, analyze_vars>>

\* checker = PerformanceRegressionChecker(...); checker.check_regressions(...)
CheckRegressions ==
    /\ pc = "check_run"
    /\ LET out == check_regressions(analysis_file.data, check_threshold)
       IN  /\ checker_regressions' = out.regressions
           /\ no_regressions' = ~out.has_regressions
    /\ pc' = "check_report"
    /\ UNCHANGED <<analysis_file, check_threshold, fail_arg, output_arg,
                   regression_report>>
    /\ UNCHANGED <<detect_vars, load_vars, analyze_vars, exit_vars>>

\* save the regression report if --output was given; open() raising on an
\* unwritable path leaves main (exit status 1)
CheckSaveReport ==
    /\ pc = "check_report"
    /\ IF output_arg = ArgAbsent
       THEN pc' = "check_exit" /\ UNCHANGED <<regression_report, exit_vars>>
       ELSE IF output_arg = "unwritable"
       THEN Exit(1) /\ UNCHANGED regression_report
       ELSE /\ regression_report' =
                  [written |-> TRUE,
                   threshold |-> check_threshold,
                   regressions_detected |-> Len(checker_regressions),
                   regressions |-> checker_regressions]
            /\ pc' = "check_exit"
            /\ UNCHANGED exit_vars
    /\ UNCHANGED <<analysis_file, check_threshold, fail_arg, output_arg,
                   checker_regressions, no_regressions>>
    /\ UNCHANGED <<detect_vars, load_vars, analyze_vars>>

\* exit with the appropriate code
CheckExit ==
    /\ pc = "check_exit"
    /\ IF parse_fail_on_regression(fail_arg) /\ ~no_regressions
       THEN Exit(1)
       ELSE Exit(0)
    /\ UNCHANGED <<detect_vars, load_vars, check_vars, analyze_vars>>

(***************************************************************************)
(* PerformanceAnalyzer: run_analysis, export_analysis, generate_report.    *)
(***************************************************************************)
\* args.baseline is None when --baseline is absent
NoBaseline == [kind |-> "none"]

\* baseline_file and os.path.exists(baseline_file)
baseline_exists(baseline) == baseline.kind \notin {"none", "missing"}

RECURSIVE load_current(_, _)
\* the loop over current_files[1..k]: the exception that left it ("none" if
\* it ran to the end) and self.current_results at that point
load_current(files, k) ==
    IF k = 0 THEN [raised |-> "none", results |-> <<>>]
    ELSE LET before == load_current(files, k - 1)
             this == load_results(files[k])
         IN  IF before.raised # "none" THEN before
             ELSE IF this.raised # "none"
             THEN [raised |-> this.raised, results |-> before.results]
             ELSE [raised |-> "none", results |-> before.results \o this.results]

\* no PerformanceAnalysis returned
NoAnalysis == [returned |-> FALSE]

\* a summary that counts every listed pair as a regression
Summary_flagged(results, regs, imps, baseline, retained) ==
    [total_tests |-> Len(results),
     architectures_tested |-> Cardinality(architectures(results)),
     entity_counts_tested |-> entity_counts(results),
     average_performance_us |-> mean_time(results),
     regressions_detected |-> Len(regs) + Len(imps),
     improvements_detected |-> Len(imps),
     has_baseline |-> baseline # NoBaseline /\ Len(retained) > 0]

\* the summary dict, without test_categories and performance_variance
Summary(results, regs, imps, baseline, retained) ==
    [total_tests |-> Len(results),
     architectures_tested |-> Cardinality(architectures(results)),
     entity_counts_tested |-> entity_counts(results),
     average_performance_us |-> mean_time(results),
     regressions_detected |-> Len(regs),
     improvements_detected |-> Len(imps),
     has_baseline |-> baseline # NoBaseline /\ Len(retained) > 0]

\* what a call of run_analysis leaves: the exception raised ("none" if it
\* returned), the two lists the analyzer holds afterwards, the steps of
\* detect_regressions and the PerformanceAnalysis (without its timestamp and
\* cross_platform_analysis)
Outcome(exc, kept, current, detected, report) ==
    [raised |-> exc, baseline_results |-> kept, current_results |-> current,
     constructed |-> detected.constructed, compared |-> detected.compared,
     analysis |-> report]

\* detect_regressions not called
NotDetected ==
    [regressions |-> <<>>, improvements |-> <<>>,
     constructed |-> <<>>, compared |-> <<>>]

\* lines 433-468: the components, the summary and the PerformanceAnalysis
compose(current, baseline, kept, detected, memory, educational, optimization) ==
    IF educational.exc # "none"
    THEN Outcome(educational.exc, kept, current, detected, NoAnalysis)
    ELSE IF optimization.exc # "none"
    THEN Outcome(optimization.exc, kept, current, detected, NoAnalysis)
    ELSE Outcome("none", kept, current, detected,
                 [returned |-> TRUE,
                  summary |-> Summary(current, detected.regressions,
                                      detected.improvements, baseline, kept),
                  regressions |-> detected.regressions,
                  improvements |-> detected.improvements,
                  memory_analysis |-> memory,
                  educational_insights |-> educational.v,
                  optimization_recommendations |-> optimization.v])

\* lines 433-437, with the lists detect_regressions returned
analyse(current, baseline, kept, detected) ==
    compose(current, baseline, kept, detected,
            analyze_memory_performance(current),
            generate_educational_insights(current, detected.regressions,
                                          detected.improvements),
            generate_optimization_recommendations(
                current, detected.regressions,
                analyze_memory_performance(current)))

\* lines 428-431, with what load_results gave for the baseline path
compare(retained, current, baseline, threshold, base) ==
    IF base.raised # "none"
    THEN Outcome(base.raised, retained, current, NotDetected, NoAnalysis)
    ELSE IF base.results # <<>>
    THEN analyse(current, baseline, base.results,
                 detect_regressions(base.results, current, threshold))
    ELSE analyse(current, baseline, base.results, NotDetected)

\* lines 422-431, with what the loop over the current files gave
analyse_current(retained, baseline, threshold, cur) ==
    IF cur.raised # "none"
    THEN Outcome(cur.raised, retained, cur.results, NotDetected, NoAnalysis)
    ELSE IF cur.results = <<>>
    THEN Outcome("ValueError", retained, cur.results, NotDetected, NoAnalysis)
    ELSE IF baseline_exists(baseline)
    THEN compare(retained, cur.results, baseline, threshold,
                 load_results(baseline))
    ELSE analyse(cur.results, baseline, retained, NotDetected)

\* run_analysis on an analyzer whose self.baseline_results is retained
run_analysis(retained, files, baseline, threshold) ==
    analyse_current(retained, baseline, threshold,
                    load_current(files, Len(files)))

\* the rows of a table: regressions[:10], improvements[:10]
TopN == 10

\* every entry of the list
top_rows_all(list) == list

top_rows(list) == SubSeq(list, 1, IF Len(list) < TopN THEN Len(list) ELSE TopN)

Section(heading, rows) == [heading |-> heading, rows |-> rows]

\* the sections generate_report writes, in the order it writes them
generate_report(report) ==
    <<Section("Executive Summary", <<>>)>>
    \o (IF report.regressions # <<>>
        THEN <<Section("Performance Regressions", top_rows(report.regressions))>>
        ELSE <<>>)
    \o (IF report.improvements # <<>>
        THEN <<Section("Performance Improvements", top_rows(report.improvements))>>
        ELSE <<>>)
    \o (IF DOMAIN report.memory_analysis.fields # {}
        THEN <<Section("Memory Analysis", <<>>)>> ELSE <<>>)
    \o <<Section("Educational Insights", report.educational_insights),
         Section("Optimization Recommendations",
                 report.optimization_recommendations),
         Section("Technical Details", <<>>)>>

\* no write attempted at a path
NotWritten == [written |-> FALSE, attempted |-> FALSE]
\* open(path, 'w') raised
WriteFailed == [written |-> FALSE, attempted |-> TRUE]

\* what open(path, 'w') finds at an output path
WritablePath == "writable"
UnwritablePath == "unwritable"

AnalyzeIdle ==
    /\ current_files = <<>>
    /\ baseline_file = NoBaseline
    /\ output_file = WritablePath
    /\ report_file = ArgAbsent
    /\ analysis = NoAnalysis
    /\ exported = NotWritten
    /\ markdown = NotWritten
    /\ summary_printed = FALSE
    /\ error = "none"
    /\ calls = 0
    /\ insights = Returned(<<>>)
    /\ recommendations = Returned(<<>>)

(***************************************************************************)
(* analyze_performance_results.py: main.                                   *)
(***************************************************************************)
\* an exception that leaves the try block ends the process with a status of
\* its own: 1, with a traceback
Uncaught(exc) == error' = exc /\ Exit(1)

\* except Exception as e: print the error, exit(2)
Caught(exc) == error' = exc /\ Exit(2)

\* the analyzer and the caller after a call of run_analysis that ended as out
Ran(out) ==
    /\ baseline_results' = out.baseline_results
    /\ current_results' = out.current_results
    /\ constructed' = out.constructed
    /\ compared' = out.compared
    /\ analysis' = out.analysis
    /\ regressions' = IF out.analysis.returned
                      THEN out.analysis.regressions ELSE <<>>
    /\ improvements' = IF out.analysis.returned
                       THEN out.analysis.improvements ELSE <<>>

\* main after the call: an exception goes to the except handler
Continue(out) ==
    /\ Ran(out)
    /\ IF out.raised # "none" THEN Caught(out.raised)
       ELSE pc' = "export_analysis" /\ UNCHANGED <<error, exit_vars>>

\* analyzer = PerformanceAnalyzer(args.threshold)
\* analysis = analyzer.run_analysis(args.current, args.baseline)
AnalyzeRun ==
    /\ pc = "run_analysis"
    /\ Continue(run_analysis(<<>>, current_files, baseline_file,
                             regression_threshold))
    /\ UNCHANGED <<regression_threshold, current_files, baseline_file,
                   output_file, report_file, exported, markdown,
                   summary_printed, calls, insights, recommendations>>
    /\ UNCHANGED <<load_vars, check_vars>>

\* analyzer.export_analysis(analysis, args.output)
AnalyzeExport ==
    /\ pc = "export_analysis"
    /\ IF output_file = WritablePath
       THEN /\ exported' = [written |-> TRUE, attempted |-> TRUE,
                            analysis |-> analysis]
            /\ pc' = "report"
            /\ UNCHANGED <<error, exit_vars>>
       ELSE /\ exported' = WriteFailed
            /\ Caught("OSError")
    /\ UNCHANGED <<current_files, baseline_file, output_file, report_file,
                   analysis, markdown, summary_printed, calls, insights,
                   recommendations>>
    /\ UNCHANGED <<detect_vars, load_vars, check_vars>>

\* if args.report: analyzer.generate_report(analysis, args.report)
AnalyzeReport ==
    /\ pc = "report"
    /\ IF report_file = ArgAbsent
       THEN pc' = "summary" /\ UNCHANGED <<markdown, error, exit_vars>>
       ELSE IF report_file = WritablePath
       THEN /\ markdown' = [written |-> TRUE, attempted |-> TRUE,
                            sections |-> generate_report(analysis)]
            /\ pc' = "summary"
            /\ UNCHANGED <<error, exit_vars>>
       ELSE /\ markdown' = WriteFailed
            /\ Caught("OSError")
    /\ UNCHANGED <<current_files, baseline_file, output_file, report_file,
                   analysis, exported, summary_printed, calls, insights,
                   recommendations>>
    /\ UNCHANGED <<detect_vars, load_vars, check_vars>>

\* the summary lines, then exit(1) on regressions and exit(0) otherwise
AnalyzeSummary ==
    /\ pc = "summary"
    /\ summary_printed' = TRUE
    /\ IF analysis.summary.regressions_detected > 0 THEN Exit(1) ELSE Exit(0)
    /\ UNCHANGED <<current_files, baseline_file, output_file, report_file,
                   analysis, exported, markdown, error, calls, insights,
                   recommendations>>
    /\ UNCHANGED <<detect_vars, load_vars, check_vars>>

(***************************************************************************)
(* Inputs of the detector.                                                 *)
(***************************************************************************)
\* regression thresholds main() can be started with (--threshold, a float)
Thresholds == {-50, 0, DefaultThreshold, 100}

Times == {-45, 0, 45, 54, 90}
Deviations == {0, 9}
\* the times that are also measured with a nonzero deviation
NoisyTimes == {-45, 45, 54}

\* records of one test on one architecture and workload
\* (a deviation is any float of the file: one record has a negative one)
TimedRecords ==
    {PerformanceResult("a_b", "c", 1000, t[1], 0, 0, t[2]) :
        t \in {u \in Times \X Deviations : u[2] = 0 \/ u[1] \in NoisyTimes}
               \cup {<<45, -9>>}}

\* records of other (test name, architecture, workload) tuples
KeyedRecords ==
    {PerformanceResult(k[1], k[2], k[3], 90, 0, 0, 0) :
        k \in {<<"a", "b_c", 1000>>, <<"a_b", "c", 10>>}}

DetectRecords == TimedRecords \cup KeyedRecords

InitDetect ==
    /\ pc = "detect"
    /\ regression_threshold \in Thresholds
    /\ \E nb \in 0..MaxRecords : \E nc \in 0..(MaxRecords - nb) :
          /\ baseline_results \in [1..nb -> DetectRecords]
          /\ current_results \in [1..nc -> DetectRecords]
    /\ regressions = <<>>
    /\ improvements = <<>>
    /\ constructed = <<>>
    /\ compared = <<>>
    /\ LoadIdle
    /\ CheckIdle
    /\ AnalyzeIdle
    /\ NotExited

\* one call of detect_regressions
Detect ==
    /\ pc = "detect"
    /\ LET out == detect_regressions(baseline_results, current_results,
                                     regression_threshold)
       IN  /\ regressions' = out.regressions
           /\ improvements' = out.improvements
           /\ constructed' = out.constructed
           /\ compared' = out.compared
    /\ pc' = "detected"
    /\ UNCHANGED <<regression_threshold, baseline_results, current_results>>
    /\ UNCHANGED <<load_vars, check_vars, analyze_vars, exit_vars>>

NextDetect == Detect

SpecDetect == InitDetect /\ [][NextDetect]_vars

\* the two boundary thresholds, 0 and 1.0
BoundaryThresholds == {0, 100}

\* records of one key, with times that double and triple one another
BoundaryRecords ==
    {PerformanceResult("a_b", "c", 1000, t, 0, 0, 0) :
        t \in {-135, -45, 0, 45, 54, 90, 135}}

InitBoundary ==
    /\ pc = "detect"
    /\ regression_threshold \in BoundaryThresholds
    /\ \E nb \in 0..MaxRecords : \E nc \in 0..(MaxRecords - nb) :
          /\ baseline_results \in [1..nb -> BoundaryRecords]
          /\ current_results \in [1..nc -> BoundaryRecords]
    /\ regressions = <<>>
    /\ improvements = <<>>
    /\ constructed = <<>>
    /\ compared = <<>>
    /\ LoadIdle
    /\ CheckIdle
    /\ AnalyzeIdle
    /\ NotExited

NextBoundary == Detect

SpecBoundary == InitBoundary /\ [][NextBoundary]_vars

(***************************************************************************)
(* Properties of detect_regressions.                                       *)
(***************************************************************************)
Detected == pc = "detected"

\* the records the k-th constructed RegressionResult was computed from
BaselineOf(st) == baseline_results[st.baseline_index]
CurrentOf(st) == current_results[st.current_index]

\* C1: for every RegressionResult that detect_regressions constructs, under
\* any threshold the analyzer can be configured with, is_regression and
\* is_improvement are never both true, and both are false whenever
\* |change_percentage| <= threshold.
C1_MutuallyExclusive ==
    \A k \in 1..Len(constructed) :
        LET r == constructed[k].result
        IN  /\ ~(r.is_regression /\ r.is_improvement)
            /\ RatLe(RatAbs(r.change_percentage), ThresholdValue(regression_threshold))
                  => (~r.is_regression /\ ~r.is_improvement)

\* C2: detect_regressions compares a current record against a baseline record
\* only when both have the same (test name, architecture, workload count)
\* tuple.
C2_PairedOnlyOnSameTuple ==
    \A k \in 1..Len(compared) :
        CompositeTuple(BaselineOf(compared[k])) = CompositeTuple(CurrentOf(compared[k]))

\* the constructed results (by position) that satisfy a predicate
Regressing(r) ==
    RatLt(ThresholdValue(regression_threshold), r.change_percentage) /\ r.confident
Improving(r) ==
    RatLt(r.change_percentage, RatNeg(ThresholdValue(regression_threshold))) /\ r.confident

\* C3: the regressions list holds exactly the matched pairs (baseline average
\* # 0) with change > threshold and confidence > 0.5, the improvements list
\* exactly those with change < -threshold and confidence > 0.5; a confident
\* pair whose current average is twice its baseline average is in regressions
\* under the default threshold, and no pair with confidence <= 0.5 is in
\* either list.
C3_ListsAreExact ==
    Detected =>
        /\ \A k \in 1..Len(regressions) : Regressing(regressions[k])
        /\ Len(regressions) =
              Cardinality({k \in 1..Len(constructed) : Regressing(constructed[k].result)})
        /\ \A k \in 1..Len(improvements) : Improving(improvements[k])
        /\ Len(improvements) =
              Cardinality({k \in 1..Len(constructed) : Improving(constructed[k].result)})
        /\ \A k \in 1..Len(constructed) :
              LET r == constructed[k].result
              IN  /\ (/\ regression_threshold = DefaultThreshold
                      /\ r.current_performance = 2 * r.baseline_performance
                      /\ r.confident)
                        => \E m \in 1..Len(regressions) : regressions[m] = r
                  /\ ~r.confident => constructed[k].appended_to = NoList

\* Scenario A: one baseline record with average 45, one current record of the
\* same key with average 54, no deviation, threshold 0.05.
ScenarioA ==
    /\ regression_threshold = DefaultThreshold
    /\ Len(baseline_results) = 1
    /\ Len(current_results) = 1
    /\ CompositeTuple(baseline_results[1]) = CompositeTuple(current_results[1])
    /\ baseline_results[1].average_time_us = 45
    /\ current_results[1].average_time_us = 54
    /\ baseline_results[1].std_deviation_us = 0
    /\ current_results[1].std_deviation_us = 0

\* C4: for every matched pair change_percentage = (current average - baseline
\* average) / baseline average, and Scenario A yields exactly one regression,
\* with change 0.20, and no improvement.
C4_ChangeIsRelativeDifference ==
    Detected =>
        /\ \A k \in 1..Len(constructed) :
              LET r == constructed[k].result
                  b == BaselineOf(constructed[k]).average_time_us
                  c == CurrentOf(constructed[k]).average_time_us
              IN  /\ r.baseline_performance = b
                  /\ r.current_performance = c
                  /\ r.change_percentage.n * b = (c - b) * r.change_percentage.d
        /\ ScenarioA =>
              /\ Len(regressions) = 1
              /\ regressions[1].change_percentage = [n |-> 1, d |-> 5]
              /\ improvements = <<>>

C4_Witness == Detected /\ ScenarioA /\ Len(constructed) = 1

\* C20: with threshold 0 every constructed pair with a nonzero change is
\* flagged a regression or an improvement; with threshold 1.0 a pair is
\* flagged a regression only if its current average is at least twice its
\* baseline average (current / baseline >= 2), and no pair of non-negative
\* times is flagged an improvement.
C20_BoundaryThresholds ==
    \A k \in 1..Len(constructed) :
        LET r == constructed[k].result
            b == BaselineOf(constructed[k]).average_time_us
            c == CurrentOf(constructed[k]).average_time_us
        IN  /\ (regression_threshold = 0 /\ c # b)
                  => (r.is_regression \/ r.is_improvement)
            /\ (regression_threshold = 100 /\ r.is_regression)
                  => RatLe(RatOfInt(2), Rat(c, b))
            /\ (regression_threshold = 100 /\ b >= 0 /\ c >= 0)
                  => ~r.is_improvement

\* threshold 1.0: a time that tripled is in regressions, next to a time that
\* only doubled and is flagged nothing
C20_Witness ==
    /\ Detected
    /\ regression_threshold = 100
    /\ \E k \in 1..Len(constructed) :
          /\ constructed[k].result.is_regression
          /\ constructed[k].result.baseline_performance > 0
    /\ \E k \in 1..Len(constructed) :
          /\ constructed[k].result.current_performance
                = 2 * constructed[k].result.baseline_performance
          /\ ~constructed[k].result.is_regression

\* C24: for every RegressionResult that detect_regressions produces,
\* confidence_level = min(0.99, statistical_significance / 3) and
\* 0 <= confidence_level <= 0.99, whatever the signs of the times and of the
\* standard deviations.
C24_ConfidenceIsBounded ==
    \A k \in 1..Len(constructed) :
        LET r == constructed[k].result
            third == Rat(r.statistical_significance.n,
                         3 * r.statistical_significance.d)
        IN  /\ r.confidence_level \in {third, Rat(99, 100)}
            /\ r.confidence_level # third => RatLt(Rat(99, 100), third)
            /\ RatLe(r.confidence_level, Rat(99, 100))
            /\ RatLe(RatOfInt(0), r.confidence_level)
            /\ r.confident <=> RatLt(Rat(1, 2), r.confidence_level)

\* results of negative times and deviations: one capped at 0.99, one below
C24_Witness ==
    /\ Detected
    /\ \E k \in 1..Len(constructed) :
          /\ constructed[k].result.confidence_level = Rat(99, 100)
          /\ CurrentOf(constructed[k]).average_time_us < 0
    /\ \E k \in 1..Len(constructed) :
          /\ RatLt(RatOfInt(0), constructed[k].result.confidence_level)
          /\ RatLt(constructed[k].result.confidence_level, Rat(99, 100))
          /\ \/ BaselineOf(constructed[k]).std_deviation_us < 0
             \/ CurrentOf(constructed[k]).std_deviation_us < 0

\* C21: a current record whose matching baseline record has average time 0
\* is excluded from regression detection: detect_regressions builds no
\* result for it and raises nothing, it is in neither list, and every other
\* current record with a baseline record of its tuple is still compared.
C21_ZeroBaselineIsExcluded ==
    pc # "detect" =>
        /\ \A k \in 1..Len(compared) :
              IF BaselineOf(compared[k]).average_time_us = 0
              THEN ~compared[k].built /\ compared[k].appended_to = NoList
              ELSE compared[k].built
        /\ compared # <<>> =>
              \A j \in 1..Len(current_results) :
                 (\E i \in 1..Len(baseline_results) :
                     CompositeTuple(baseline_results[i])
                        = CompositeTuple(current_results[j]))
                   => \E k \in 1..Len(compared) : compared[k].current_index = j
        /\ \A k \in 1..Len(regressions) : regressions[k].baseline_performance # 0
        /\ \A k \in 1..Len(improvements) : improvements[k].baseline_performance # 0

\* a record excluded for its zero baseline, followed by one that is appended
\* to the regressions
C21_Witness ==
    \E k \in 1..Len(compared) : \E m \in 1..Len(compared) :
        /\ k < m
        /\ BaselineOf(compared[k]).average_time_us = 0
        /\ ~compared[k].built
        /\ compared[m].appended_to = "regressions"

\* C22: when several baseline records have the same composite key, a current
\* record with that key is compared against the last of them in baseline
\* order, and against no earlier one.
C22_LastBaselineWins ==
    \A k \in 1..Len(compared) :
        LET st == compared[k]
            key == LookupKey(CurrentOf(st))
        IN  /\ LookupKey(BaselineOf(st)) = key
            /\ \A m \in (st.baseline_index + 1)..Len(baseline_results) :
                  LookupKey(baseline_results[m]) # key
            /\ st.built =>
                  st.result.baseline_performance = BaselineOf(st).average_time_us

\* two baseline records of one key with different averages, and a current
\* record of that key compared against the second
C22_Witness ==
    /\ Detected
    /\ \E k \in 1..Len(constructed) : \E i \in 1..Len(baseline_results) :
          /\ i < constructed[k].baseline_index
          /\ LookupKey(baseline_results[i]) = LookupKey(CurrentOf(constructed[k]))
          /\ baseline_results[i].average_time_us
                # BaselineOf(constructed[k]).average_time_us

\* C23: the regressions list is ordered by non-increasing change_percentage,
\* the improvements list by non-decreasing change_percentage.
C23_ListsAreSorted ==
    /\ \A k \in 1..(Len(regressions) - 1) :
          RatLe(regressions[k + 1].change_percentage, regressions[k].change_percentage)
    /\ \A k \in 1..(Len(improvements) - 1) :
          RatLe(improvements[k].change_percentage, improvements[k + 1].change_percentage)

\* two results appended to one list in the other order than the sorted one
AppendedAgainstOrder(which, reverse) ==
    \E k \in 1..Len(constructed) : \E m \in 1..Len(constructed) :
        /\ k < m
        /\ constructed[k].appended_to = which
        /\ constructed[m].appended_to = which
        /\ SortsBefore(constructed[m].result, constructed[k].result, reverse)

C23_Witness ==
    /\ Detected
    /\ \/ AppendedAgainstOrder("regressions", TRUE)
       \/ AppendedAgainstOrder("improvements", FALSE)

(***************************************************************************)
(* Inputs of the loader: what can be at the path.                          *)
(***************************************************************************)
\* the function with no key, and the functions giving one key one of vals
Opt(key, vals) == {<<>>} \cup {key :> v : v \in vals}

\* objects with or without the time keys, with valid and invalid values
TimedEntries ==
    {Obj(a @@ b @@ c) :
        a \in Opt("real_time", {Num(5), Num(-5), Str("12"), Str("abc"), Null}),
        b \in Opt("average_time_us", {Num(7)}),
        c \in {<<>>, ("min_time" :> Num(1)) @@ ("max_time" :> Num(6))}}

\* objects whose workload count is beyond the float range
HugeCountEntries ==
    {Obj(("entity_count" :> Infinity) @@ a) :
        a \in Opt("real_time", {Num(5), Str("abc")})}

ObjectEntries == TimedEntries \cup HugeCountEntries

\* what an array of a result file can hold: objects and other values
ArrayItems == ObjectEntries \cup {Num(5)}

\* the arrays of at most max entries
EntryArrays(max) == {Arr(items) : items \in UNION {[1..n -> ArrayItems] : n \in 0..max}}

Documents(max) ==
    EntryArrays(max)
    \cup {Obj("benchmarks" :> v) : v \in EntryArrays(max) \cup {Num(5), Null}}
    \cup {Obj("results" :> v) : v \in EntryArrays(max)}
    \cup ObjectEntries
    \cup {Num(5), Null, Str("x")}

Files(max) ==
    {[kind |-> k] : k \in {"missing", "unreadable", "malformed"}}
    \cup {[kind |-> "json", data |-> d] : d \in Documents(max)}

DetectIdle ==
    /\ regression_threshold = DefaultThreshold
    /\ baseline_results = <<>>
    /\ current_results = <<>>
    /\ regressions = <<>>
    /\ improvements = <<>>
    /\ constructed = <<>>
    /\ compared = <<>>

InitLoad ==
    /\ pc = "load"
    /\ file \in Files(MaxEntries)
    /\ loaded = NotLoaded
    /\ DetectIdle
    /\ CheckIdle
    /\ AnalyzeIdle
    /\ NotExited

\* one call of load_results(file_path)
Load ==
    /\ pc = "load"
    /\ loaded' = load_results(file)
    /\ pc' = "loaded"
    /\ UNCHANGED <<file, detect_vars, check_vars, analyze_vars, exit_vars>>

NextLoad == Load

SpecLoad == InitLoad /\ [][NextLoad]_vars

(***************************************************************************)
(* Properties of load_results.                                             *)
(***************************************************************************)
Loaded == pc = "loaded"

\* the file holds one of the three array shapes: a bare array, or an object
\* whose benchmarks (else results) key holds an array
ArrayShaped ==
    /\ file.kind = "json"
    /\ \/ file.data.t = "array"
       \/ /\ file.data.t = "object"
          /\ \/ /\ has_key(file.data, "benchmarks")
                /\ file.data.fields["benchmarks"].t = "array"
             \/ /\ ~has_key(file.data, "benchmarks")
                /\ has_key(file.data, "results")
                /\ file.data.fields["results"].t = "array"

\* the entries of the file: of its array, or the bare object itself
EntriesOfFile ==
    IF ~ArrayShaped THEN <<file.data>>
    ELSE IF file.data.t = "array" THEN file.data.items
    ELSE IF has_key(file.data, "benchmarks") THEN file.data.fields["benchmarks"].items
    ELSE file.data.fields["results"].items

\* the file is a JSON document of an accepted shape whose entries are objects
ExpectedContent ==
    /\ file.kind = "json"
    /\ ArrayShaped \/ file.data.t = "object"
    /\ \A k \in 1..Len(EntriesOfFile) : EntriesOfFile[k].t = "object"

\* C5: load_results never raises past the loader boundary; for a missing
\* file, an unreadable path or content that is not the expected JSON it
\* returns an empty sequence.
C5_NeverRaisesPastLoader ==
    Loaded =>
        /\ loaded.raised = "none"
        /\ ~ExpectedContent => loaded.results = <<>>

\* some required field of the entry cannot be coerced to its type
Uncoercible(item) ==
    \/ item.t # "object"
    \/ \E k \in 1..Len(Coercions(item)) : Coercions(item)[k].exc # "none"

\* C6: for a document of one of the three array shapes load_results returns
\* as many records as the array has entries, minus the entries whose required
\* fields cannot be coerced; such an entry does not abort the load.
C6_CountIsEntriesMinusUncoercible ==
    (Loaded /\ ArrayShaped) =>
        /\ loaded.raised = "none"
        /\ Len(loaded.results) =
              Len(EntriesOfFile)
              - Cardinality({k \in 1..Len(EntriesOfFile) : Uncoercible(EntriesOfFile[k])})

\* the entry has no average-time key at all
MissingAverage(item) ==
    /\ item.t = "object"
    /\ ~has_key(item, "real_time")
    /\ ~has_key(item, "average_time_us")

LoadedFrom(k) == \E m \in 1..Len(loaded.sources) : loaded.sources[m] = k

\* C7: an entry that is missing a required numeric field (it has no
\* average-time key) is skipped: no PerformanceResult is produced for it,
\* while the other entries of the file are still loaded.
C7_MissingFieldIsSkipped ==
    (Loaded /\ ExpectedContent /\ loaded.raised = "none") =>
        \A k \in 1..Len(EntriesOfFile) :
            IF MissingAverage(EntriesOfFile[k]) THEN ~LoadedFrom(k)
            ELSE ~Uncoercible(EntriesOfFile[k]) => LoadedFrom(k)

\* C8: every PerformanceResult produced by load_results has average_time_us
\* >= 0 and, when its entry gives both a minimum and a maximum time,
\* min_time_us <= average_time_us <= max_time_us.
C8_TimesAreOrdered ==
    (Loaded /\ ExpectedContent) =>
        \A m \in 1..Len(loaded.results) :
            LET r == loaded.results[m]
                item == EntriesOfFile[loaded.sources[m]]
            IN  /\ r.average_time_us >= 0
                /\ (has_key(item, "min_time") /\ has_key(item, "max_time"))
                      => (r.min_time_us <= r.average_time_us
                          /\ r.average_time_us <= r.max_time_us)

\* the number a JSON number or a decimal string stands for
NumberOf(v) == IF v.t = "number" THEN v.v ELSE DecimalValue[v.s]

\* C25: when a raw entry carries both real_time and average_time_us, the
\* record's average time is the value of real_time; average_time_us is used
\* only when real_time is absent.
C25_RealTimeComesFirst ==
    \A m \in 1..Len(loaded.results) :
        LET r == loaded.results[m]
            item == EntriesOfFile[loaded.sources[m]]
        IN  /\ has_key(item, "real_time")
                  => r.average_time_us = NumberOf(item.fields["real_time"])
            /\ (~has_key(item, "real_time") /\ has_key(item, "average_time_us"))
                  => r.average_time_us = NumberOf(item.fields["average_time_us"])

\* a record loaded from an entry that carries both keys with different
\* values, and one loaded from an entry with average_time_us alone
C25_Witness ==
    /\ Loaded
    /\ \E m \in 1..Len(loaded.results) :
          LET item == EntriesOfFile[loaded.sources[m]]
          IN  /\ has_key(item, "real_time") /\ has_key(item, "average_time_us")
              /\ item.fields["real_time"] # item.fields["average_time_us"]
    /\ \E m \in 1..Len(loaded.results) :
          LET item == EntriesOfFile[loaded.sources[m]]
          IN  ~has_key(item, "real_time") /\ has_key(item, "average_time_us")

(***************************************************************************)
(* Inputs of the check script.                                             *)
(***************************************************************************)
\* a comparison without performance_change, or with one (in hundredths)
Comparisons ==
    {Obj(a) : a \in Opt("performance_change", {Num(-20), Num(-5), Num(0), Num(20)})}

\* the comparisons object: any of the tests, each with a comparison
ComparisonObjects ==
    {Obj(a @@ b) : a \in Opt("t1", Comparisons), b \in Opt("t2", Comparisons)}

Benchmarks ==
    {Obj(a @@ b) : a \in Opt("error_occurred", {Bool(TRUE)}),
                   b \in Opt("timeout", {Bool(TRUE), Bool(FALSE)})}

BenchmarkArrays ==
    {Arr(items) : items \in UNION {[1..n -> Benchmarks] : n \in 0..MaxBenchmarks}}

AnalysisDocuments ==
    {Obj("comparisons" :> c) : c \in ComparisonObjects}
    \cup {Obj("benchmarks" :> b) : b \in BenchmarkArrays}
    \cup {Obj("timestamp" :> Str("x"))}

AnalysisFiles ==
    {[kind |-> k] : k \in {"missing", "unreadable", "malformed"}}
    \cup {[kind |-> "json", data |-> d] : d \in AnalysisDocuments}

\* --fail-on-regression: not given, or given with one of these strings
FailArgs == {ArgAbsent, "True", "False", ""}
\* --output: not given, a path that can be written, a path that cannot
OutputArgs == {ArgAbsent, "writable", "unwritable"}

InitCheck ==
    /\ pc = "check_load"
    /\ analysis_file \in AnalysisFiles
    /\ check_threshold \in {DefaultThreshold, 20}
    /\ fail_arg \in FailArgs
    /\ output_arg \in OutputArgs
    /\ checker_regressions = <<>>
    /\ no_regressions = TRUE
    /\ regression_report = NoReport
    /\ NotExited
    /\ DetectIdle
    /\ LoadIdle
    /\ AnalyzeIdle

NextCheck ==
    \/ CheckLoadAnalysis
    \/ CheckRegressions
    \/ CheckSaveReport
    \/ CheckExit

SpecCheck == InitCheck /\ [][NextCheck]_vars

(***************************************************************************)
(* Properties of the exit codes.                                           *)
(***************************************************************************)
\* check_regressions found a regression in the analysis data
RegressionsDetected == pc \in {"check_report", "check_exit", "exited"} /\ ~no_regressions

\* the caller asked not to fail on regressions
FailOnRegressionDisabled == fail_arg \in {"False", ""}

\* C9: the process exits with code 1 only when regressions were detected and
\* the caller requested fail-on-regression; with fail-on-regression disabled
\* it exits 0 even though regressions were detected, and it exits 0 when no
\* regression exceeded the threshold.
C9_ExitOneOnlyOnRequestedFailure ==
    exited =>
        /\ exit_code = 1 => (RegressionsDetected /\ ~FailOnRegressionDisabled)
        /\ (analysis_file.kind = "json" /\ output_arg # "unwritable"
              /\ (FailOnRegressionDisabled \/ no_regressions))
              => exit_code = 0

\* the required input cannot be used: the file is missing or is not JSON
UnrecoverableInput == analysis_file.kind \in {"missing", "malformed"}

\* C10: when the required input is unrecoverable the process exits with code
\* 2, never with 0 or 1.
C10_UnrecoverableInputExitsTwo ==
    (exited /\ UnrecoverableInput) => exit_code = 2

\* C28: the failing outcome and the recorded regressions agree:
\* check_regressions returns False if and only if checker.regressions is
\* not empty, so a written report has regressions_detected > 0 exactly when
\* the run found regressions.
C28_OutcomeMatchesRecorded ==
    /\ ~no_regressions <=> checker_regressions # <<>>
    /\ regression_report.written =>
          (regression_report.regressions_detected > 0 <=> ~no_regressions)

(***************************************************************************)
(* Inputs of the analysis script.                                          *)
(***************************************************************************)
\* a benchmark entry with the keys load_results reads
ResultEntry(arch, count, time) ==
    Obj(("name" :> Str("a_b")) @@ ("architecture" :> Str(arch))
        @@ ("entity_count" :> Num(count)) @@ ("real_time" :> Num(time)))

\* a benchmark entry with no time key
UntimedEntry(arch, count) ==
    Obj(("name" :> Str("a_b")) @@ ("architecture" :> Str(arch))
        @@ ("entity_count" :> Num(count)))

ResultDocuments ==
    {Arr(<<>>),
     Arr(<<ResultEntry("c", 1000, 45)>>),
     Arr(<<ResultEntry("c", 1000, 90)>>),
     Arr(<<ResultEntry("c", 1000, 45), UntimedEntry("d", 10)>>),
     Arr(<<UntimedEntry("c", 10), ResultEntry("c", 100, 45),
           ResultEntry("c", 1000, 90)>>),
     Arr(<<Num(5)>>)}

ResultFiles ==
    {[kind |-> k] : k \in {"missing", "unreadable", "malformed"}}
    \cup {[kind |-> "json", data |-> d] : d \in ResultDocuments}

OutputPaths == {WritablePath, UnwritablePath}

InitAnalyze ==
    /\ pc = "run_analysis"
    /\ regression_threshold \in {DefaultThreshold, 100}
    /\ \E n \in 1..MaxFiles : current_files \in [1..n -> ResultFiles]
    /\ baseline_file \in {NoBaseline} \cup ResultFiles
    /\ output_file \in OutputPaths
    /\ report_file \in {ArgAbsent} \cup OutputPaths
    /\ analysis = NoAnalysis
    /\ exported = NotWritten
    /\ markdown = NotWritten
    /\ summary_printed = FALSE
    /\ error = "none"
    /\ calls = 0
    /\ insights = Returned(<<>>)
    /\ recommendations = Returned(<<>>)
    /\ baseline_results = <<>>
    /\ current_results = <<>>
    /\ regressions = <<>>
    /\ improvements = <<>>
    /\ constructed = <<>>
    /\ compared = <<>>
    /\ LoadIdle
    /\ CheckIdle
    /\ NotExited

NextAnalyze ==
    \/ AnalyzeRun
    \/ AnalyzeExport
    \/ AnalyzeReport
    \/ AnalyzeSummary

SpecAnalyze == InitAnalyze /\ [][NextAnalyze]_vars

(***************************************************************************)
(* A sequence of run_analysis calls on one PerformanceAnalyzer.            *)
(***************************************************************************)
\* after PerformanceAnalyzer(): both lists empty, no call made
InitAnalyzer ==
    /\ pc = "analyzer"
    /\ regression_threshold \in {DefaultThreshold, 100}
    /\ baseline_results = <<>>
    /\ current_results = <<>>
    /\ regressions = <<>>
    /\ improvements = <<>>
    /\ constructed = <<>>
    /\ compared = <<>>
    /\ AnalyzeIdle
    /\ LoadIdle
    /\ CheckIdle
    /\ NotExited

\* the caller keeps the exception of a call that raised
Called(out) == Ran(out) /\ error' = out.raised

\* one more call of run_analysis on the same analyzer, with one current file
AnalyzerCall ==
    /\ pc = "analyzer"
    /\ calls < MaxCalls
    /\ \E f \in ResultFiles : \E b \in {NoBaseline} \cup ResultFiles :
          /\ current_files' = <<f>>
          /\ baseline_file' = b
          /\ Called(run_analysis(baseline_results, <<f>>, b,
                                 regression_threshold))
    /\ calls' = calls + 1
    /\ UNCHANGED <<pc, regression_threshold, output_file, report_file, exported,
                   markdown, summary_printed, insights, recommendations>>
    /\ UNCHANGED <<load_vars, check_vars, exit_vars>>

NextAnalyzer == AnalyzerCall

SpecAnalyzer == InitAnalyzer /\ [][NextAnalyzer]_vars

(***************************************************************************)
(* The insights and recommendations for a result list.                     *)
(***************************************************************************)
InsightRecords ==
    {PerformanceResult("a_b", r[1], r[2], r[3], 0, 0, 0) :
        r \in {<<"c", 0, 45>>, <<"c", 10, 0>>, <<"c", 10, 45>>,
               <<"c", 100, 45>>, <<"c", 1000, 90>>,
               <<"d", 10, 0>>, <<"d", 1000, 45>>}}

\* the regressions argument: none, or the one of a time that doubled
RegressionLists ==
    {<<>>,
     <<RegressionResult(PerformanceResult("a_b", "c", 1000, 45, 0, 0, 0),
                        PerformanceResult("a_b", "c", 1000, 90, 0, 0, 0),
                        DefaultThreshold)>>}

\* the improvements argument: none, or the one of a time that halved
ImprovementLists ==
    {<<>>,
     <<RegressionResult(PerformanceResult("a_b", "c", 1000, 90, 0, 0, 0),
                        PerformanceResult("a_b", "c", 1000, 45, 0, 0, 0),
                        DefaultThreshold)>>}

InitInsights ==
    /\ pc = "insights"
    /\ regression_threshold = DefaultThreshold
    /\ baseline_results = <<>>
    /\ \E n \in 0..MaxRecords : current_results \in [1..n -> InsightRecords]
    /\ regressions \in RegressionLists
    /\ improvements \in ImprovementLists
    /\ constructed = <<>>
    /\ compared = <<>>
    /\ AnalyzeIdle
    /\ LoadIdle
    /\ CheckIdle
    /\ NotExited

\* one call of generate_educational_insights
GenerateInsights ==
    /\ pc = "insights"
    /\ insights' = generate_educational_insights(current_results, regressions,
                                                 improvements)
    /\ pc' = "recommendations"
    /\ UNCHANGED <<current_files, baseline_file, output_file, report_file,
                   analysis, exported, markdown, summary_printed, error, calls,
                   recommendations>>
    /\ UNCHANGED <<detect_vars, load_vars, check_vars, exit_vars>>

\* one call of generate_optimization_recommendations
GenerateRecommendations ==
    /\ pc = "recommendations"
    /\ recommendations' =
           generate_optimization_recommendations(
               current_results, regressions,
               analyze_memory_performance(current_results))
    /\ pc' = "advised"
    /\ UNCHANGED <<current_files, baseline_file, output_file, report_file,
                   analysis, exported, markdown, summary_printed, error, calls,
                   insights>>
    /\ UNCHANGED <<detect_vars, load_vars, check_vars, exit_vars>>

NextInsights ==
    \/ GenerateInsights
    \/ GenerateRecommendations

SpecInsights == InitInsights /\ [][NextInsights]_vars

(***************************************************************************)
(* generate_report on analyses with long lists.                            *)
(***************************************************************************)
RECURSIVE ListedRegressions(_)
RECURSIVE ListedImprovements(_)

\* the record of the k-th test, with the given average time
ListedRecord(k, time) == PerformanceResult("a_b", "c", k, time, 0, 0, 0)

\* n regressions, sorted as detect_regressions returns them: largest first
ListedRegressions(n) ==
    IF n = 0 THEN <<>>
    ELSE Append(ListedRegressions(n - 1),
                RegressionResult(ListedRecord(n, 45),
                                 ListedRecord(n, 45 * (MaxListed + 2 - n)),
                                 DefaultThreshold))

\* n improvements, sorted as detect_regressions returns them: most negative first
ListedImprovements(n) ==
    IF n = 0 THEN <<>>
    ELSE Append(ListedImprovements(n - 1),
                RegressionResult(ListedRecord(n, 45 * (MaxListed + 2 - n)),
                                 ListedRecord(n, 45),
                                 DefaultThreshold))

\* the PerformanceAnalysis of one current record with the given lists
ListedAnalysis(regs, imps, memory_analysis) ==
    LET results == <<PerformanceResult("a_b", "c", 1000, 90, 0, 0, 0)>>
    IN  [returned |-> TRUE,
         summary |-> Summary(results, regs, imps,
                             [kind |-> "json", data |-> Arr(<<>>)], results),
         regressions |-> regs,
         improvements |-> imps,
         memory_analysis |-> memory_analysis,
         educational_insights |->
             generate_educational_insights(results, regs, imps).v,
         optimization_recommendations |->
             generate_optimization_recommendations(results, regs,
                                                   memory_analysis).v]

\* main after export_analysis
InitReport ==
    /\ pc = "report"
    /\ regression_threshold = DefaultThreshold
    /\ \E n \in 0..MaxListed : \E m \in 0..MaxListed :
       \E memory_analysis \in {Obj(<<>>),
                               analyze_memory_performance(<<ListedRecord(1, 45)>>)} :
          analysis = ListedAnalysis(ListedRegressions(n), ListedImprovements(m),
                                    memory_analysis)
    /\ exported = [written |-> TRUE, attempted |-> TRUE, analysis |-> analysis]
    /\ report_file \in {ArgAbsent} \cup OutputPaths
    /\ output_file = WritablePath
    /\ current_files = <<>>
    /\ baseline_file = NoBaseline
    /\ markdown = NotWritten
    /\ summary_printed = FALSE
    /\ error = "none"
    /\ calls = 0
    /\ insights = Returned(<<>>)
    /\ recommendations = Returned(<<>>)
    /\ baseline_results = <<>>
    /\ current_results = <<>>
    /\ regressions = <<>>
    /\ improvements = <<>>
    /\ constructed = <<>>
    /\ compared = <<>>
    /\ LoadIdle
    /\ CheckIdle
    /\ NotExited

NextReport ==
    \/ AnalyzeReport
    \/ AnalyzeSummary

SpecReport == InitReport /\ [][NextReport]_vars

\* the headings of the report, in the order fixed for them
SectionOrder ==
    <<"Executive Summary", "Performance Regressions",
      "Performance Improvements", "Memory Analysis", "Educational Insights",
      "Optimization Recommendations", "Technical Details">>

\* the place of a heading in the fixed order, 0 for any other heading
Place(heading) ==
    LET at == {p \in DOMAIN SectionOrder : SectionOrder[p] = heading}
    IN  IF at = {} THEN 0 ELSE CHOOSE p \in at : TRUE

\* the rows are the first entries of the list, at most ten of them
IsTopTen(rows, list) ==
    /\ Len(rows) <= 10
    /\ Len(rows) <= Len(list)
    /\ \A k \in 1..Len(rows) : rows[k] = list[k]

\* C18: the sections of the written Markdown report are in the fixed order
\* executive summary, regressions table, improvements table, memory
\* analysis, insights, recommendations, technical details, and each table
\* lists at most the first 10 entries of its list.
C18_ReportSectionsInOrder ==
    markdown.written =>
        LET sections == markdown.sections
        IN  /\ \A i \in DOMAIN sections : Place(sections[i].heading) # 0
            /\ \A i, j \in DOMAIN sections :
                  i < j => Place(sections[i].heading) < Place(sections[j].heading)
            /\ \A i \in DOMAIN sections :
                  /\ sections[i].heading = "Performance Regressions"
                        => IsTopTen(sections[i].rows, analysis.regressions)
                  /\ sections[i].heading = "Performance Improvements"
                        => IsTopTen(sections[i].rows, analysis.improvements)

\* a report of all seven sections from lists of more than ten entries
C18_Witness ==
    /\ markdown.written
    /\ Len(markdown.sections) = 7
    /\ Len(analysis.regressions) > 10
    /\ Len(analysis.improvements) > 10
    /\ \E i \in DOMAIN markdown.sections :
          /\ markdown.sections[i].heading = "Performance Regressions"
          /\ Len(markdown.sections[i].rows) = 10

(***************************************************************************)
(* Properties of the analysis script.                                      *)
(***************************************************************************)

\* load_results returns at least one record for some --current path
SomeCurrentLoads ==
    \E k \in DOMAIN current_files : load_results(current_files[k]).results # <<>>

\* every --current path is missing, malformed, or an array of zero entries
EmptyCurrent ==
    \A k \in DOMAIN current_files :
        \/ current_files[k].kind \in {"missing", "malformed"}
        \/ current_files[k].kind = "json" /\ current_files[k].data = Arr(<<>>)

\* C11: when every current file is missing, malformed or has zero entries,
\* the process exits with code 2 right after run_analysis and neither the
\* JSON output nor the Markdown report is written.
C11_EmptyCurrentExitsTwo ==
    (EmptyCurrent /\ pc # "run_analysis") =>
        /\ exited /\ exit_code = 2
        /\ ~exported.attempted
        /\ ~markdown.attempted

\* an empty array, next to a missing path, with both output paths writable
C11_Witness ==
    /\ exited /\ EmptyCurrent /\ error = "ValueError"
    /\ \E k \in DOMAIN current_files : current_files[k].kind = "json"
    /\ \E k \in DOMAIN current_files : current_files[k].kind = "missing"
    /\ output_file = WritablePath /\ report_file = WritablePath

\* C12: with no --baseline and at least one current result loaded,
\* run_analysis returns a report with empty regressions and improvements and
\* has_baseline = FALSE, and the JSON output is written when its path can be.
C12_NoBaselineStillReports ==
    (baseline_file = NoBaseline /\ SomeCurrentLoads /\ pc # "run_analysis") =>
        /\ analysis.returned
        /\ analysis.regressions = <<>>
        /\ analysis.improvements = <<>>
        /\ ~analysis.summary.has_baseline
        /\ (exited /\ output_file = WritablePath) => exported.written

\* C13: once there is an analysis to write and a report was asked for, the
\* process exits with both writes attempted, and with an error reported for
\* each write that failed.
C13_WritesAreIndependent ==
    (exited /\ analysis.returned /\ report_file # ArgAbsent) =>
        /\ exported.attempted
        /\ markdown.attempted
        /\ (exported = WriteFailed \/ markdown = WriteFailed) => error # "none"

\* C16: exit code 2 only when no current file gave a record or when the JSON
\* output could not be written.
C16_OnlyTwoFatalConditions ==
    (exited /\ exit_code = 2) => (~SomeCurrentLoads \/ exported = WriteFailed)

\* C17: the process never exits without having printed the summary.
C17_SummaryAlwaysPrinted ==
    exited => summary_printed

\* C14: after every call on one analyzer, the report and the exception are
\* those of the same call on a fresh analyzer.
C14_CallsAreIndependent ==
    calls > 0 =>
        LET fresh == run_analysis(<<>>, current_files, baseline_file,
                                  regression_threshold)
        IN  analysis = fresh.analysis /\ error = fresh.raised

RECURSIVE RecordsLoaded(_)
\* the number of records load_results returns for the first k current files
RecordsLoaded(k) ==
    IF k = 0 THEN 0
    ELSE RecordsLoaded(k - 1) + Len(load_results(current_files[k]).results)

\* C30: in every report returned by run_analysis, regressions_detected is
\* the length of the regressions list, improvements_detected the length of
\* the improvements list and total_tests the number of current records
\* loaded over all current files; the two lists together hold no more
\* entries than results were built, one per current record at most.
C30_SummaryCountsTheLists ==
    analysis.returned =>
        /\ analysis.summary.regressions_detected = Len(analysis.regressions)
        /\ analysis.summary.improvements_detected = Len(analysis.improvements)
        /\ analysis.summary.total_tests = RecordsLoaded(Len(current_files))
        /\ Len(analysis.regressions) + Len(analysis.improvements) <= Len(constructed)
        /\ Len(constructed) <= analysis.summary.total_tests

\* a report of two current files whose records were both compared, one of
\* them listed
C30_Witness ==
    /\ analysis.returned
    /\ Len(current_files) = 2
    /\ analysis.summary.total_tests >= 2
    /\ Len(analysis.regressions) + Len(analysis.improvements) >= 1
    /\ Len(constructed) = 2

(***************************************************************************)
(* Properties of the insights.                                             *)
(***************************************************************************)
\* the distinct positive workload sizes of the results
DistinctPositiveSizes ==
    {c \in {current_results[i].entity_count : i \in DOMAIN current_results} :
        c >= 1}

HasScalingInsight ==
    /\ insights.exc = "none"
    /\ \E k \in 1..Len(insights.v) : contains(insights.v[k], "Scaling Analysis")

\* C26: generate_educational_insights emits the scaling-analysis insight
\* only when the results hold at least 3 distinct positive workload sizes,
\* and the slope never divides by zero: with records of one architecture,
\* where the slope is the only quotient taken, the call returns.
C26_ScalingNeedsThreeSizes ==
    pc # "insights" =>
        /\ HasScalingInsight => Cardinality(DistinctPositiveSizes) >= 3
        /\ Cardinality({current_results[i].architecture :
                            i \in DOMAIN current_results}) <= 1
              => insights.exc = "none"

\* the scaling insight for records of three positive sizes
C26_Witness ==
    /\ pc # "insights"
    /\ HasScalingInsight
    /\ Cardinality(DistinctPositiveSizes) = 3

\* C19: for an empty result list generate_educational_insights returns one
\* element, the statement that no data is available, whatever the
\* regressions and improvements are.
C19_EmptyResultsGiveOneInsight ==
    (pc # "insights" /\ current_results = <<>>) =>
        /\ insights.exc = "none"
        /\ Len(insights.v) = 1
        /\ insights.v[1] = "No performance data available for analysis."

\* the call with no result, one regression and one improvement
C19_Witness ==
    /\ pc # "insights" /\ current_results = <<>>
    /\ regressions # <<>> /\ improvements # <<>>
    /\ Len(insights.v) = 1

(***************************************************************************)
(* The two scripts as one pipeline: the check script is started on the     *)
(* file export_analysis wrote.                                             *)
(***************************************************************************)
\* asdict of a RegressionResult
regression_json(r) ==
    Obj(("test_name" :> Str(r.test_name))
        @@ ("baseline_performance" :> Num(r.baseline_performance))
        @@ ("current_performance" :> Num(r.current_performance))
        @@ ("change_percentage" :> Num(r.change_percentage))
        @@ ("is_regression" :> Bool(r.is_regression))
        @@ ("is_improvement" :> Bool(r.is_improvement))
        @@ ("statistical_significance" :> Num(r.statistical_significance))
        @@ ("confidence_level" :> Num(r.confidence_level)))

\* the summary dict of the model (without entity_counts_tested)
summary_json(summary) ==
    Obj(("total_tests" :> Num(summary.total_tests))
        @@ ("architectures_tested" :> Num(summary.architectures_tested))
        @@ ("average_performance_us" :> Num(summary.average_performance_us))
        @@ ("regressions_detected" :> Num(summary.regressions_detected))
        @@ ("improvements_detected" :> Num(summary.improvements_detected))
        @@ ("has_baseline" :> Bool(summary.has_baseline)))

\* json.dump(asdict(analysis)): one key per field of PerformanceAnalysis;
\* the records of the model have no platform, the timestamp is some string
asdict_json(report) ==
    Obj(("summary" :> summary_json(report.summary))
        @@ ("regressions" :>
               Arr([k \in 1..Len(report.regressions) |->
                       regression_json(report.regressions[k])]))
        @@ ("improvements" :>
               Arr([k \in 1..Len(report.improvements) |->
                       regression_json(report.improvements[k])]))
        @@ ("cross_platform_analysis" :>
               Obj(("platforms_tested" :> Arr(<<>>)) @@ ("platform_count" :> Num(0))))
        @@ ("memory_analysis" :> report.memory_analysis)
        @@ ("educational_insights" :>
               Arr([k \in 1..Len(report.educational_insights) |->
                       Str(report.educational_insights[k])]))
        @@ ("optimization_recommendations" :>
               Arr([k \in 1..Len(report.optimization_recommendations) |->
                       Str(report.optimization_recommendations[k])]))
        @@ ("timestamp" :> Str("now")))

\* check_performance_regressions.py started with --analysis on the file the
\* analysis script wrote, and with the same --threshold
PipelineCheck ==
    /\ pc = "exited"
    /\ exported.written
    /\ analysis_file.kind = "missing"
    /\ analysis_file' = [kind |-> "json", data |-> asdict_json(exported.analysis)]
    /\ check_threshold' = regression_threshold
    /\ fail_arg' \in FailArgs
    /\ output_arg' \in OutputArgs
    /\ pc' = "check_load"
    /\ exited' = FALSE
    /\ exit_code' = 0
    /\ UNCHANGED <<checker_regressions, no_regressions, regression_report>>
    /\ UNCHANGED <<detect_vars, load_vars, analyze_vars>>

NextPipeline ==
    \/ AnalyzeRun
    \/ AnalyzeExport
    \/ AnalyzeReport
    \/ AnalyzeSummary
    \/ PipelineCheck
    \/ CheckLoadAnalysis
    \/ CheckRegressions
    \/ CheckSaveReport
    \/ CheckExit

SpecPipeline == InitAnalyze /\ [][NextPipeline]_vars

\* check_regressions has run on the exported document
CheckedExport ==
    /\ analysis_file.kind = "json"
    /\ pc \in {"check_report", "check_exit", "exited"}

\* C29: when the document export_analysis wrote contains at least one
\* regression, check_regressions run on it with the same threshold reports
\* a regression (returns False), and it reports none when the document
\* contains none.
C29_CheckAgreesWithExport ==
    CheckedExport =>
        (~no_regressions <=> exported.analysis.regressions # <<>>)

\* C27: for every non-empty list of records load_results can produce,
\* records whose average time defaulted to 0 included, both
\* generate_educational_insights and generate_optimization_recommendations
\* return a list without raising.
C27_TextGenerationNeverRaises ==
    (pc = "advised" /\ current_results # <<>>) =>
        /\ insights.exc = "none"
        /\ recommendations.exc = "none"

====
